---- MODULE Spec2Model ----
(***************************************************************************)
(* Ownership and configuration of the native GPU resources object wrapped  *)
(* by StandardGpuResources (src/src/gpu.rs).                               *)
(*                                                                         *)
(* A "slot" is a variable binding of type StandardGpuResources.  The heap  *)
(* is the native engine's side: which handles are allocated, how each      *)
(* object is configured and how often it was released.  Every operation    *)
(* records what it did (the native calls it made, what it returned) in     *)
(* `last`.                                                                 *)
(***************************************************************************)
EXTENDS Integers, Sequences, FiniteSets

\* ---------------------------------------------------------------- bounds
MaxSlots == 2
MaxHandles == 2
MaxSize == 1
MaxNewCalls == 2

Slots == 1..MaxSlots
Handles == 1..MaxHandles
Sizes == 0..MaxSize
\* f32 fractions, in hundredths
Fractions == {50}
Threads == {"setup", "worker"}
NoThread == "none"

\* ------------------------------------------------- the native engine side
\* ptr::null_mut()
NULL == 0

\* native error codes other than success
ErrCodes == {-1}

DefaultTemp == [kind |-> "default", v |-> 0]
DefaultPinned == [kind |-> "default", v |-> 0]
FreshObject ==
    [alloc |-> FALSE, temp |-> DefaultTemp, pinned |-> DefaultPinned, allocs |-> 0, frees |-> 0]

NativeEntries == {"noTempMemory", "setTempMemory", "setTempMemoryFraction", "setPinnedMemory"}

\* is this handle a native object that was allocated and not yet released
NativeLive(hp, h) == h \in Handles /\ hp[h].alloc

\* faiss_StandardGpuResources_new: a fresh handle with status 0, or an error
\* code and the out-pointer left as it was
NativeNewOutcomes(hp) ==
    {[status |-> 0, ptr |-> h] : h \in {x \in Handles : ~hp[x].alloc}}
        \cup {[status |-> c, ptr |-> NULL] : c \in ErrCodes}

\* the statuses a configuration entry point may report
NativeConfigStatuses(fn, arg) ==
    IF fn = "setTempMemory" /\ arg = 0 THEN {0} ELSE {0} \cup ErrCodes

\* the effect of a configuration entry point on the object's configuration;
\* a call that reports failure leaves it as it was
NativeConfigEffect(obj, fn, arg, status) ==
    IF status # 0 THEN obj
    ELSE CASE fn = "noTempMemory" -> [obj EXCEPT !.temp = [kind |-> "fixed", v |-> 0]]
           [] fn = "setTempMemory" -> [obj EXCEPT !.temp = [kind |-> "fixed", v |-> arg]]
           [] fn = "setTempMemoryFraction" -> [obj EXCEPT !.temp = [kind |-> "fraction", v |-> arg]]
           [] fn = "setPinnedMemory" -> [obj EXCEPT !.pinned = [kind |-> "fixed", v |-> arg]]
           [] OTHER -> obj

\* faiss_StandardGpuResources_free
NativeFreeEffect(obj) == [obj EXCEPT !.alloc = FALSE, !.frees = @ + 1]

\* one native call applied to the heap
NativeStep(hp, call) ==
    IF ~(call.h \in Handles) THEN hp
    ELSE IF call.fn = "free" THEN [hp EXCEPT ![call.h] = NativeFreeEffect(@)]
    ELSE IF call.fn = "new"
        THEN IF call.status = 0
                THEN [hp EXCEPT ![call.h] = [FreshObject EXCEPT !.alloc = TRUE,
                                                           !.allocs = hp[call.h].allocs + 1,
                                                           !.frees = hp[call.h].frees]]
                ELSE hp
    ELSE IF ~hp[call.h].alloc THEN hp
    ELSE [hp EXCEPT ![call.h] = NativeConfigEffect(@, call.fn, call.arg, call.status)]

RECURSIVE NativeAllocated(_, _)
\* how many native objects the engine has allocated so far, over handles hs
NativeAllocated(hp, hs) ==
    IF hs = {} THEN 0
    ELSE LET h == CHOOSE x \in hs : TRUE
         IN hp[h].allocs + NativeAllocated(hp, hs \ {h})

RECURSIVE NativeRun(_, _)
NativeRun(hp, calls) ==
    IF calls = <<>> THEN hp ELSE NativeRun(NativeStep(hp, Head(calls)), Tail(calls))

\* faiss_try!: a status other than 0 makes the caller return Err at once
faiss_try_fails(status) == status # 0


\* ------------------------------------------------------------ the program
VARIABLES st, inner, thr, mutRef, shrRef, heap, nNew, nOk, last

vars == <<st, inner, thr, mutRef, shrRef, heap, nNew, nOk, last>>

ConfigOps == {"no_temp_memory", "set_temp_memory", "set_temp_memory_fraction", "set_pinned_memory"}

\* unsafe impl Send for StandardGpuResources {}
IsSend == TRUE

\* variant: the type also implements Sync
SyncImplemented == TRUE

\* "Deliberately _not_ Sync!": the raw pointer field makes the type !Sync
IsSync == FALSE

\* variant: the type derives Copy, so a move leaves the source usable
CopyDerived == TRUE

\* struct StandardGpuResources derives neither Clone nor Copy: a move
\* invalidates the binding moved from
IsCopy == FALSE

\* variant: new() without faiss_try!, wrapping whatever the out-pointer holds
NewIgnoringStatus(out) == [ok |-> TRUE, inner |-> out.ptr]

\* StandardGpuResources::new, given what the native allocation reported
NewResult(out) ==
    IF faiss_try_fails(out.status)
        THEN [ok |-> FALSE, inner |-> NULL]
        ELSE [ok |-> TRUE, inner |-> out.ptr]

\* the native calls made when an owner goes out of scope: the type has no
\* Drop implementation and its only field is a raw pointer
DropCalls(h) == <<>>

\* variant: set_temp_memory calls the pinned-memory entry point
OwnerEntrySwapped(op) ==
    CASE op = "no_temp_memory" -> "noTempMemory"
      [] op = "set_temp_memory" -> "setPinnedMemory"
      [] op = "set_temp_memory_fraction" -> "setTempMemoryFraction"
      [] op = "set_pinned_memory" -> "setPinnedMemory"

\* the native entry point each configuration method calls
OwnerEntry(op) ==
    CASE op = "no_temp_memory" -> "noTempMemory"
      [] op = "set_temp_memory" -> "setTempMemory"
      [] op = "set_temp_memory_fraction" -> "setTempMemoryFraction"
      [] op = "set_pinned_memory" -> "setPinnedMemory"

\* the parameter handed to the native entry point
PassedArg(op, arg) == IF op = "no_temp_memory" THEN 0 ELSE arg

\* variant: a configuration method first allocates a new native object
ConfigCallsRealloc(op, h, arg, status) ==
    LET free == {x \in Handles : ~heap[x].alloc}
        call == [fn |-> OwnerEntry(op), h |-> h, arg |-> PassedArg(op, arg), status |-> status]
    IN IF free = {} THEN << call >>
       ELSE << [fn |-> "new", h |-> CHOOSE x \in free : TRUE, arg |-> 0, status |-> 0], call >>

\* variant: a configuration method that falls back to disabling temp memory
\* when the native call fails
ConfigCallsFallback(op, h, arg, status) ==
    LET call == [fn |-> OwnerEntry(op), h |-> h, arg |-> PassedArg(op, arg), status |-> status]
    IN IF status = 0 THEN << call >>
       ELSE << call, [fn |-> "noTempMemory", h |-> h, arg |-> 0, status |-> 0] >>

\* the native calls one configuration method makes on self.inner
ConfigCalls(op, h, arg, status) ==
    << [fn |-> OwnerEntry(op), h |-> h, arg |-> PassedArg(op, arg), status |-> status] >>

\* faiss_try!(...); Ok(())
ConfigResult(status) == IF faiss_try_fails(status) THEN "Err" ELSE "Ok"

\* variant: the adapter's set_pinned_memory forwards to set_temp_memory
AdapterTargetSwapped(op) == IF op = "set_pinned_memory" THEN "set_temp_memory" ELSE op

\* the owner's method an adapter method forwards to: (**self).op(..)
AdapterTarget(op) == op

\* inner_ptr of the owner
InnerPtr(s) == inner[s]

\* variant: the adapter's inner_ptr returns a null pointer
AdapterInnerPtrNull(s) == NULL

\* inner_ptr of &mut StandardGpuResources: self.inner through the reference
AdapterInnerPtr(s) == inner[s]

\* &mut self: the owner's binding itself is usable by thread t for a mutation
OwnerMutable(s, t) ==
    st[s] = "live" /\ thr[s] = t /\ mutRef[s] = NoThread /\ shrRef[s] = {}

\* &self on the owner's binding
OwnerReadable(s, t) == st[s] = "live" /\ thr[s] = t /\ mutRef[s] = NoThread

\* variant: a reference without the lifetime 'g, which does not hold its owner
UnborrowedUnchecked(s) == TRUE

\* a value can be dropped or moved only while nothing borrows it ('g)
Unborrowed(s) == mutRef[s] = NoThread /\ shrRef[s] = {}

\* &T may cross to another thread only if T: Sync
CanShareWith(s, t) == t = thr[s] \/ IsSync

\* T and &mut T may cross to another thread only if T: Send
CanSendTo(s, t) == t = thr[s] \/ IsSend

RECURSIVE AllLive(_, _)
AllLive(hp, calls) ==
    IF calls = <<>> THEN TRUE
    ELSE NativeLive(hp, Head(calls).h) /\ AllLive(NativeStep(hp, Head(calls)), Tail(calls))

Record(op, s, t, via, arg, calls, res, ret, live) ==
    [op |-> op, slot |-> s, via |-> via, arg |-> arg,
     calls |-> calls, res |-> res, ret |-> ret, live |-> live]

\* what an operation that makes no native call and returns nothing leaves
Idle == Record("none", 1, "setup", "owner", 0, <<>>, "Ok", NULL, TRUE)

Init ==
    /\ st = [s \in Slots |-> "empty"]
    /\ inner = [s \in Slots |-> NULL]
    /\ thr = [s \in Slots |-> "setup"]
    /\ mutRef = [s \in Slots |-> NoThread]
    /\ shrRef = [s \in Slots |-> {}]
    /\ heap = [h \in Handles |-> FreshObject]
    /\ nNew = 0
    /\ nOk = 0
    /\ last = Idle

\* let gpu = StandardGpuResources::new() on thread t, bound to slot s on Ok
new(s, t) ==
    /\ st[s] = "empty"
    /\ nNew < MaxNewCalls
    /\ \E out \in NativeNewOutcomes(heap) :
        LET r == NewResult(out)
            calls == << [fn |-> "new", h |-> out.ptr, arg |-> 0, status |-> out.status] >>
        IN /\ heap' = NativeRun(heap, calls)
           /\ st' = IF r.ok THEN [st EXCEPT ![s] = "live"] ELSE st
           /\ inner' = IF r.ok THEN [inner EXCEPT ![s] = r.inner] ELSE inner
           /\ thr' = IF r.ok THEN [thr EXCEPT ![s] = t] ELSE thr
           /\ nNew' = nNew + 1
           /\ nOk' = IF r.ok THEN nOk + 1 ELSE nOk
           /\ last' = Record("new", s, t, "owner", 0, calls,
                             IF r.ok THEN "Ok" ELSE "Err", r.inner, TRUE)
    /\ UNCHANGED <<mutRef, shrRef>>

\* the owner in slot s goes out of scope on thread t
drop(s, t) ==
    /\ st[s] = "live" /\ thr[s] = t
    /\ Unborrowed(s)
    /\ LET calls == DropCalls(inner[s])
       IN /\ heap' = NativeRun(heap, calls)
          /\ last' = Record("drop", s, t, "owner", 0, calls, "Ok", NULL, AllLive(heap, calls))
    /\ st' = [st EXCEPT ![s] = "gone"]
    /\ thr' = [thr EXCEPT ![s] = "setup"]
    /\ UNCHANGED <<inner, mutRef, shrRef, nNew, nOk>>

\* the owner in slot s is moved into the empty binding d, held by thread t;
\* the binding moved from is left uninitialised
move(s, d, t) ==
    /\ st[s] = "live" /\ st[d] = "empty"
    /\ Unborrowed(s)
    /\ CanSendTo(s, t)
    /\ st' = [st EXCEPT ![s] = IF IsCopy THEN "live" ELSE "moved", ![d] = "live"]
    /\ inner' = [inner EXCEPT ![d] = inner[s], ![s] = IF IsCopy THEN @ ELSE NULL]
    /\ thr' = [thr EXCEPT ![d] = t, ![s] = IF IsCopy THEN @ ELSE "setup"]
    /\ last' = Record("move", d, t, IF t = thr[s] THEN "owner" ELSE "sent", 0, <<>>, "Ok", NULL, TRUE)
    /\ UNCHANGED <<mutRef, shrRef, heap, nNew, nOk>>

\* &mut gpu is taken and handed to thread t
borrow_mut(s, t) ==
    /\ st[s] = "live"
    /\ Unborrowed(s)
    /\ CanSendTo(s, t)
    /\ mutRef' = [mutRef EXCEPT ![s] = t]
    /\ last' = Idle
    /\ UNCHANGED <<st, inner, thr, shrRef, heap, nNew, nOk>>

\* the &mut borrow of slot s ends
end_borrow_mut(s) ==
    /\ mutRef[s] # NoThread
    /\ mutRef' = [mutRef EXCEPT ![s] = NoThread]
    /\ last' = Idle
    /\ UNCHANGED <<st, inner, thr, shrRef, heap, nNew, nOk>>

\* &gpu is taken (as into_gpu(&gpu, 0) does) for use by thread t
borrow_shared(s, t) ==
    /\ st[s] = "live"
    /\ mutRef[s] = NoThread
    /\ t \notin shrRef[s]
    /\ CanShareWith(s, t)
    /\ shrRef' = [shrRef EXCEPT ![s] = @ \cup {t}]
    /\ last' = Idle
    /\ UNCHANGED <<st, inner, thr, mutRef, heap, nNew, nOk>>

\* a shared borrow of slot s held by thread t ends
end_borrow_shared(s, t) ==
    /\ t \in shrRef[s]
    /\ shrRef' = [shrRef EXCEPT ![s] = @ \ {t}]
    /\ last' = Idle
    /\ UNCHANGED <<st, inner, thr, mutRef, heap, nNew, nOk>>

\* one configuration method run to its return: the native calls it makes on
\* the handle of slot s, their effect on the heap, and the Result it returns
Configure(s, t, via, op, arg) ==
    LET target == IF via = "adapter" THEN AdapterTarget(op) ELSE op
        h == inner[s]
    IN \E status \in NativeConfigStatuses(OwnerEntry(target), PassedArg(target, arg)) :
        LET calls == ConfigCalls(target, h, arg, status)
        IN /\ heap' = NativeRun(heap, calls)
           /\ last' = Record(op, s, t, via, arg, calls, ConfigResult(status), NULL,
                             AllLive(heap, calls))
           /\ UNCHANGED <<st, inner, thr, mutRef, shrRef, nNew, nOk>>

\* gpu.inner_ptr() on the owner
inner_ptr(s, t) ==
    /\ OwnerReadable(s, t)
    /\ last' = Record("inner_ptr", s, t, "owner", 0, <<>>, "Ok", InnerPtr(s), TRUE)
    /\ UNCHANGED <<st, inner, thr, mutRef, shrRef, heap, nNew, nOk>>

no_temp_memory(s, t) ==
    OwnerMutable(s, t) /\ Configure(s, t, "owner", "no_temp_memory", 0)

set_temp_memory(s, t, size) ==
    OwnerMutable(s, t) /\ Configure(s, t, "owner", "set_temp_memory", size)

set_temp_memory_fraction(s, t, fraction) ==
    OwnerMutable(s, t) /\ Configure(s, t, "owner", "set_temp_memory_fraction", fraction)

set_pinned_memory(s, t, size) ==
    OwnerMutable(s, t) /\ Configure(s, t, "owner", "set_pinned_memory", size)

\* the same five operations on a &mut StandardGpuResources held by a thread
ref_inner_ptr(s) ==
    /\ mutRef[s] # NoThread
    /\ last' = Record("inner_ptr", s, mutRef[s], "adapter", 0, <<>>, "Ok", AdapterInnerPtr(s), TRUE)
    /\ UNCHANGED <<st, inner, thr, mutRef, shrRef, heap, nNew, nOk>>

ref_no_temp_memory(s) ==
    mutRef[s] # NoThread /\ Configure(s, mutRef[s], "adapter", "no_temp_memory", 0)

ref_set_temp_memory(s, size) ==
    mutRef[s] # NoThread /\ Configure(s, mutRef[s], "adapter", "set_temp_memory", size)

ref_set_temp_memory_fraction(s, fraction) ==
    mutRef[s] # NoThread /\ Configure(s, mutRef[s], "adapter", "set_temp_memory_fraction", fraction)

ref_set_pinned_memory(s, size) ==
    mutRef[s] # NoThread /\ Configure(s, mutRef[s], "adapter", "set_pinned_memory", size)

Next ==
    \/ \E s \in Slots, t \in Threads : new(s, t)
    \/ \E s \in Slots, t \in Threads : drop(s, t)
    \/ \E s \in Slots, d \in Slots, t \in Threads : move(s, d, t)
    \/ \E s \in Slots, t \in Threads : borrow_mut(s, t)
    \/ \E s \in Slots : end_borrow_mut(s)
    \/ \E s \in Slots, t \in Threads : borrow_shared(s, t)
    \/ \E s \in Slots, t \in Threads : end_borrow_shared(s, t)
    \/ \E s \in Slots, t \in Threads : inner_ptr(s, t)
    \/ \E s \in Slots, t \in Threads : no_temp_memory(s, t)
    \/ \E s \in Slots, t \in Threads, size \in Sizes : set_temp_memory(s, t, size)
    \/ \E s \in Slots, t \in Threads, f \in Fractions : set_temp_memory_fraction(s, t, f)
    \/ \E s \in Slots, t \in Threads, size \in Sizes : set_pinned_memory(s, t, size)
    \/ \E s \in Slots : ref_inner_ptr(s)
    \/ \E s \in Slots : ref_no_temp_memory(s)
    \/ \E s \in Slots, size \in Sizes : ref_set_temp_memory(s, size)
    \/ \E s \in Slots, f \in Fractions : ref_set_temp_memory_fraction(s, f)
    \/ \E s \in Slots, size \in Sizes : ref_set_pinned_memory(s, size)

Spec == Init /\ [][Next]_vars

\* ---------------------------------------------------------------- claims
LiveSlots == {s \in Slots : st[s] = "live"}

\* the threads that can reach the pool of slot s, directly or by reference
Accessors(s) ==
    (IF mutRef[s] = NoThread THEN {thr[s]} ELSE {mutRef[s]}) \cup shrRef[s]

\* the native entry point that corresponds to each configuration operation
Corresponding(op) ==
    CASE op = "no_temp_memory" -> "noTempMemory"
      [] op = "set_temp_memory" -> "setTempMemory"
      [] op = "set_temp_memory_fraction" -> "setTempMemoryFraction"
      [] op = "set_pinned_memory" -> "setPinnedMemory"
      [] OTHER -> "none"

\* C1: every owner that was destroyed had the native release entry point
\* called on its handle exactly once.
C1_ReleasedExactlyOnce ==
    \A s \in Slots : st[s] = "gone" => heap[inner[s]].frees = 1

\* C2: a call of new() makes exactly one native allocation call; it returns
\* Ok iff that call reported success; on Ok the binding is live and stores
\* the non-null, allocated handle the native call returned; on Err no
\* binding is made, no handle is stored and no native object was allocated.
\* At all times every allocated native object is held by some owner.
C2_NewOwnsIffAllocated ==
    /\ last.op = "new" =>
        /\ Len(last.calls) = 1
        /\ last.calls[1].fn = "new"
        /\ (last.res = "Ok") <=> (last.calls[1].status = 0)
        /\ last.res = "Ok" =>
            /\ st[last.slot] = "live"
            /\ inner[last.slot] = last.calls[1].h
            /\ inner[last.slot] # NULL
            /\ NativeLive(heap, inner[last.slot])
        /\ last.res = "Err" =>
            /\ st[last.slot] = "empty"
            /\ inner[last.slot] = NULL
            /\ last.calls[1].h = NULL
    /\ \A h \in Handles : heap[h].alloc =>
        \E s \in Slots : st[s] \in {"live", "gone"} /\ inner[s] = h
    /\ \A s \in LiveSlots : inner[s] # NULL

C2_Witness ==
    /\ last.op = "new" /\ last.res = "Err"
    /\ \E s \in Slots : st[s] = "live" /\ NativeLive(heap, inner[s])

\* a step that is one of the configuration operations or inner_ptr
C3_Stable ==
    last'.op \in ConfigOps \cup {"inner_ptr"} =>
        /\ inner' = inner
        /\ st' = st
        /\ nNew' = nNew /\ nOk' = nOk
        /\ NativeAllocated(heap', Handles) = NativeAllocated(heap, Handles)
        /\ \A i \in 1..Len(last'.calls) : last'.calls[i].fn # "new"
        /\ last'.op = "inner_ptr" => last'.ret = inner[last'.slot]

\* C3 as stated: configuration and inner_ptr leave every pool's handle as it
\* was, make no native allocation call, and the number of native objects
\* allocated equals the number of new() calls.
C3_Original ==
    /\ [][C3_Stable]_vars
    /\ [](NativeAllocated(heap, Handles) = nNew)

\* C3 amended: configuration and inner_ptr leave every pool's handle as it
\* was, make no native allocation call, and the number of native objects
\* allocated equals the number of new() calls that returned Ok.
C3_HandleStable ==
    /\ [][C3_Stable]_vars
    /\ [](NativeAllocated(heap, Handles) = nOk)

C3_Witness ==
    /\ last.op = "inner_ptr" /\ last.ret # NULL
    /\ heap[last.ret].temp = [kind |-> "fixed", v |-> 0]
    /\ heap[last.ret].pinned.kind = "fixed"
    /\ nOk < nNew

\* C4: a configuration call that returns Err leaves the pool live, its
\* handle, its configuration and every access path to it as they were, so
\* the caller that made the call may call again.
C4_FailureKeepsState ==
    /\ [][(last'.op \in ConfigOps /\ last'.res = "Err") =>
            /\ heap' = heap
            /\ st' = st /\ inner' = inner /\ thr' = thr
            /\ mutRef' = mutRef /\ shrRef' = shrRef]_vars
    /\ [](last.op \in ConfigOps /\ last.res = "Err" =>
            /\ st[last.slot] = "live"
            /\ NativeLive(heap, inner[last.slot])
            /\ IF last.via = "adapter"
                  THEN mutRef[last.slot] # NoThread
                  ELSE OwnerMutable(last.slot, thr[last.slot]))

C4_Witness ==
    /\ last.op = "set_temp_memory" /\ last.res = "Err"
    /\ heap[inner[last.slot]].temp.kind = "fraction"
    /\ heap[inner[last.slot]].pinned.kind = "fixed"

\* C5: two distinct live owners never hold the same handle.
C5_LiveHandlesDistinct ==
    \A s \in LiveSlots : \A d \in LiveSlots : s # d => inner[s] # inner[d]

C5_Witness ==
    /\ Cardinality(LiveSlots) >= 2
    /\ \E s \in Slots : st[s] = "live" /\ heap[inner[s]].temp # DefaultTemp

\* C6: while a &mut borrow lasts, the adapter's inner_ptr() is the owner's
\* inner_ptr(), and that is what a call through the adapter returned.
C6_AdapterSameHandle ==
    /\ \A s \in Slots : mutRef[s] # NoThread => AdapterInnerPtr(s) = InnerPtr(s)
    /\ (last.op = "inner_ptr" /\ last.via = "adapter") => last.ret = InnerPtr(last.slot)

C6_Witness ==
    /\ last.op = "inner_ptr" /\ last.via = "adapter" /\ last.ret # NULL
    /\ heap[last.ret].pinned.kind = "fixed"

\* C7: at most one thread at a time can reach a live pool, directly or
\* through references.
C7_OneThreadAtATime ==
    \A s \in LiveSlots :
        /\ Cardinality(Accessors(s)) <= 1
        /\ \A d \in LiveSlots : inner[d] = inner[s] => Accessors(d) = Accessors(s)

\* a pool was handed to another thread, and is borrowed there
C7_Witness ==
    \E s \in LiveSlots : thr[s] = "worker" /\ shrRef[s] = {"worker"}
        /\ \E d \in Slots : st[d] = "moved"

C9_OneCallStatusPropagated ==
    last.op \in ConfigOps =>
        /\ Len(last.calls) = 1
        /\ last.calls[1].fn = Corresponding(last.op)
        /\ last.calls[1].h = inner[last.slot]
        /\ last.op # "no_temp_memory" => last.calls[1].arg = last.arg
        /\ (last.res = "Err") <=> (last.calls[1].status # 0)

C9_Witness ==
    /\ last.op = "set_pinned_memory" /\ last.via = "adapter"
    /\ last.res = "Err" /\ last.arg = MaxSize

\* C10: every native configuration call is made on an allocated, unreleased
\* handle of an owner that is live, and a borrow exists only of a live owner.
C10_CallsOnLiveHandle ==
    /\ last.op \in ConfigOps =>
        /\ last.live
        /\ st[last.slot] = "live"
        /\ \A i \in 1..Len(last.calls) : NativeLive(heap, last.calls[i].h)
    /\ \A s \in Slots : (mutRef[s] # NoThread \/ shrRef[s] # {}) =>
        st[s] = "live" /\ NativeLive(heap, inner[s])

C10_Witness ==
    /\ last.op \in ConfigOps /\ last.via = "adapter"
    /\ \E d \in Slots : st[d] = "gone"

====
